---- MODULE Spec2Model ----
(***************************************************************************)
(* Model of the oaipmh harvest command (directory partitioning, filename   *)
(* filter) and of the record-search expression engine (values, native      *)
(* functions, parser, evaluator).                                          *)
(*                                                                         *)
(* Go strings are sequences of one-character strings.  Errors and values   *)
(* are records of a fixed shape so that they can be compared.              *)
(***************************************************************************)
EXTENDS Integers, Sequences, FiniteSets, TLC

\* ---------------------------------------------------------------------------
\* Bounds of the model

\* Largest number of records a harvester delivers in one run.
MaxRecords == 4

\* Largest value of the -D flag (maxDirSize) that is explored.
MaxDirSizeBound == 3

\* ---------------------------------------------------------------------------
\* Go strings

HasPrefix(s, prefix) ==
    /\ Len(prefix) <= Len(s)
    /\ SubSeq(s, 1, Len(prefix)) = prefix

Contains(s, substr) ==
    \E i \in 0..(Len(s) - Len(substr)) : SubSeq(s, i + 1, i + Len(substr)) = substr

RECURSIVE ReplaceScan(_, _, _)
ReplaceScan(s, old, new) ==
    IF Len(s) < Len(old) THEN s
    ELSE IF HasPrefix(s, old)
         THEN new \o ReplaceScan(SubSeq(s, Len(old) + 1, Len(s)), old, new)
         ELSE <<Head(s)>> \o ReplaceScan(Tail(s), old, new)

RECURSIVE ReplaceEmpty(_, _)
ReplaceEmpty(s, new) ==
    IF s = << >> THEN new
    ELSE new \o <<Head(s)>> \o ReplaceEmpty(Tail(s), new)

\* strings.Replace(s, old, new, -1): an empty old matches before every
\* character and at the end.
Replace(s, old, new) ==
    IF old = << >> THEN ReplaceEmpty(s, new) ELSE ReplaceScan(s, old, new)

RECURSIVE TrimLeft(_)
TrimLeft(s) ==
    IF s # << >> /\ Head(s) = " " THEN TrimLeft(Tail(s)) ELSE s

RECURSIVE TrimRight(_)
TrimRight(s) ==
    IF s # << >> /\ s[Len(s)] = " " THEN TrimRight(SubSeq(s, 1, Len(s) - 1)) ELSE s

TrimSpace(s) == TrimRight(TrimLeft(s))

\* ---------------------------------------------------------------------------
\* Errors and expression values

NoError == [kind |-> "nil", fn |-> "", n |-> 0]

\* fmt.Errorf("<fn>() expects exactly <n> argument")
ArityError(fnName, n) == [kind |-> "expects exactly", fn |-> fnName, n |-> n]

OtherError(kind) == [kind |-> kind, fn |-> "", n |-> 0]

NilValue == [kind |-> "nil", s |-> << >>, b |-> FALSE]

RSString(s) == [kind |-> "RSString", s |-> s, b |-> FALSE]

RSBool(b) == [kind |-> "RSBool", s |-> << >>, b |-> b]

Bool(v) ==
    IF v.kind = "RSString" THEN v.s # << >> ELSE v.b

String(v) ==
    IF v.kind = "RSString" THEN v.s
    ELSE IF v.b THEN <<"t", "r", "u", "e">> ELSE <<"f", "a", "l", "s", "e">>

Ok(v) == [val |-> v, err |-> NoError]

Fail(e) == [val |-> NilValue, err |-> e]

\* ---------------------------------------------------------------------------
\* Records (RecordResult) and the xmlpath library, as far as xp() uses them

Identifier(rr) == rr.id

\* xmlpath.Compile: the empty path does not compile.
XPathCompiles(path) == path # << >>

\* xmlpath.Parse: the content is an XML document or it is not.
XmlParses(content) == content # "<broken"

\* path.String(n): the text of the first node the path selects, "" if none.
XPathString(path, content) ==
    IF path = <<"/">> /\ content = "<r> a </r>" THEN <<" ", "a", " ">>
    ELSE << >>

Records ==
    { [id |-> <<"a">>, content |-> "<r> a </r>"],
      [id |-> <<"/">>, content |-> "<broken"],
      [id |-> << >>,   content |-> "<r><a/></r>"] }

\* ---------------------------------------------------------------------------
\* Native functions

NativeNames == {"xp", "concat", "startsWith", "contains", "urn", "replace"}

RECURSIVE ConcatStrings(_)
ConcatStrings(args) ==
    IF args = << >> THEN << >>
    ELSE String(Head(args)) \o ConcatStrings(Tail(args))

Fn_xp(rr, args) ==
    IF Len(args) # 1 THEN Fail(ArityError("xp", 1))
    ELSE IF ~XPathCompiles(String(args[1])) THEN Fail(OtherError("xmlpath.Compile"))
    ELSE IF ~XmlParses(rr.content) THEN Fail(OtherError("xmlpath.Parse"))
    ELSE Ok(RSString(TrimSpace(XPathString(String(args[1]), rr.content))))

Fn_concat(rr, args) == Ok(RSString(ConcatStrings(args)))

Fn_startsWith(rr, args) ==
    IF Len(args) # 2 THEN Fail(ArityError("startsWith", 2))
    ELSE IF HasPrefix(String(args[1]), String(args[2])) THEN Ok(args[1])
    ELSE Ok(RSString(<< >>))

Fn_contains(rr, args) ==
    IF Len(args) # 2 THEN Fail(ArityError("contains", 2))
    ELSE IF Contains(String(args[1]), String(args[2])) THEN Ok(args[1])
    ELSE Ok(RSString(<< >>))

Fn_urn(rr, args) == Ok(RSString(Identifier(rr)))

Fn_replace(rr, args) ==
    IF Len(args) # 3 THEN Fail(ArityError("contains", 3))
    ELSE Ok(RSString(Replace(String(args[1]), String(args[2]), String(args[3]))))

\* NATIVE_FUNCTIONS[name](rr, args)
NATIVE_FUNCTIONS(name, rr, args) ==
    CASE name = "xp"         -> Fn_xp(rr, args)
      [] name = "concat"     -> Fn_concat(rr, args)
      [] name = "startsWith" -> Fn_startsWith(rr, args)
      [] name = "contains"   -> Fn_contains(rr, args)
      [] name = "urn"        -> Fn_urn(rr, args)
      [] name = "replace"    -> Fn_replace(rr, args)

\* ---------------------------------------------------------------------------
\* AST nodes

RSExprLiteral(v) == [type |-> "RSExprLiteral", val |-> v, Fn |-> "", FnArgs |-> << >>]

RSExprFnCall(fn, args) ==
    [type |-> "RSExprFnCall", val |-> NilValue, Fn |-> fn, FnArgs |-> args]

NilAst == [type |-> "nil", val |-> NilValue, Fn |-> "", FnArgs |-> << >>]

\* Evaluate, as one call: RSExprLiteral.Evaluate returns the held value;
\* RSExprFnCall.Evaluate evaluates the arguments in index order, returns the
\* first error, and otherwise invokes Fn on the argument values.
RECURSIVE Evaluate(_, _)
RECURSIVE EvaluateArgs(_, _, _, _)
EvaluateArgs(fnCall, rr, i, argValues) ==
    IF i > Len(fnCall.FnArgs) THEN NATIVE_FUNCTIONS(fnCall.Fn, rr, argValues)
    ELSE LET r == Evaluate(fnCall.FnArgs[i], rr)
         IN  IF r.err # NoError THEN Fail(r.err)
             ELSE EvaluateArgs(fnCall, rr, i + 1, Append(argValues, r.val))

Evaluate(node, rr) ==
    IF node.type = "RSExprLiteral" THEN Ok(node.val)
    ELSE EvaluateArgs(node, rr, 1, << >>)

\* ---------------------------------------------------------------------------
\* Tokens of text/scanner, as the parser sees them

\* Largest number of tokens of a parsed expression.
MaxTokens == 5

\* The quote characters that open and close a string token.
Q == "DQUOTE"

RawQ == "BACKQUOTE"

Token(kind, name, text) == [tok |-> kind, name |-> name, text |-> text]

EOF == Token("EOF", "", << >>)

Ident(name) == Token("Ident", name, << >>)

StringTok(text) == Token("String", "", text)

Punct(c) == Token(c, "", << >>)

\* strconv.Unquote: the text between matching quotes; an error when the
\* token is not closed by the quote that opens it.
Unquotes(text) ==
    /\ Len(text) >= 2
    /\ text[1] \in {Q, RawQ}
    /\ text[Len(text)] = text[1]

Unquote(text) == SubSeq(text, 2, Len(text) - 1)

\* recordSearchParser: the scanner's position is the index of rsp.tok in the
\* token sequence; past the end rsp.tok stays EOF.
TokAt(toks, pos) == IF pos > Len(toks) THEN EOF ELSE toks[pos]

nextToken(toks, pos) == IF TokAt(toks, pos).tok # "EOF" THEN pos + 1 ELSE pos

etoken(expected, actual) ==
    [kind |-> "Expected but got", fn |-> expected, n |-> 0, actual |-> actual]

PErr(kind, name) == [kind |-> kind, fn |-> name, n |-> 0, actual |-> ""]

PNoError == [kind |-> "nil", fn |-> "", n |-> 0, actual |-> ""]

PResult(ast, err, pos) == [ast |-> ast, err |-> err, pos |-> pos]

readString(toks, pos) ==
    LET t == TokAt(toks, pos)
    IN  IF t.tok \in {"String", "RawString"}
        THEN IF ~Unquotes(t.text)
             THEN [s |-> << >>, err |-> PErr("invalid syntax", ""), pos |-> pos]
             ELSE [s |-> Unquote(t.text), err |-> PNoError, pos |-> nextToken(toks, pos)]
        ELSE [s |-> << >>, err |-> PErr("Expected string but got", t.tok), pos |-> pos]

parseAtom(toks, pos) ==
    LET r == readString(toks, pos)
    IN  PResult(RSExprLiteral(RSString(r.s)), r.err, r.pos)

RECURSIVE parseExpr(_, _)
RECURSIVE parseFnArgs(_, _, _, _)

\* The loop of parseFn: for rsp.tok != ')' { consume ',' after the first
\* argument; parseExpr; append }, then consume(')').
parseFnArgs(toks, pos, fnName, args) ==
    IF TokAt(toks, pos).tok = ")"
    THEN PResult(RSExprFnCall(fnName, args), PNoError, nextToken(toks, pos))
    ELSE IF Len(args) > 0 /\ TokAt(toks, pos).tok # ","
    THEN PResult(NilAst, etoken(",", TokAt(toks, pos).tok), pos)
    ELSE LET p1 == IF Len(args) > 0 THEN nextToken(toks, pos) ELSE pos
             r  == parseExpr(toks, p1)
         IN  IF r.err # PNoError THEN PResult(NilAst, r.err, r.pos)
             ELSE parseFnArgs(toks, r.pos, fnName, Append(args, r.ast))

parseFn(toks, pos) ==
    LET t == TokAt(toks, pos)
    IN  IF t.tok # "Ident" THEN PResult(NilAst, etoken("Ident", t.tok), pos)
        ELSE IF t.name \notin NativeNames
        THEN PResult(NilAst, PErr("No such function", t.name), nextToken(toks, pos))
        ELSE LET p1 == nextToken(toks, pos)
             IN  IF TokAt(toks, p1).tok = "("
                 THEN parseFnArgs(toks, nextToken(toks, p1), t.name, << >>)
                 ELSE PResult(RSExprFnCall(t.name, << >>), PNoError, p1)

parseExpr(toks, pos) ==
    IF TokAt(toks, pos).tok = "Ident" THEN parseFn(toks, pos)
    ELSE parseAtom(toks, pos)

\* ParseRSExpr: the AST of the expression at the start of the input, or the
\* error and no AST.
ParseRSExpr(toks) ==
    LET r == parseExpr(toks, 1)
    IN  IF r.err = PNoError THEN [ast |-> r.ast, err |-> PNoError]
        ELSE [ast |-> NilAst, err |-> r.err]

\* ---------------------------------------------------------------------------
\* State

VARIABLES
    \* HarvestCommand
    pc,                 \* where Run is: start, harvest, returned, done, fatal, panic
    dryRun, compressDirs, maxDirSize, filenameFilter, filenameFilterAst,
    dirPrefix, recordCount, lastDirId,
    \* the file system under dirPrefix and what the command did, in order
    dirs, files, log,
    \* expression evaluation: the shared AST and the running evaluations
    ast, evals,
    \* ParseRSExpr: the input and what it returned
    expr, parsed

hvars == <<pc, dryRun, compressDirs, maxDirSize, filenameFilter, filenameFilterAst,
           dirPrefix, recordCount, lastDirId, dirs, files, log>>

evars == <<ast, evals>>

pvars == <<expr, parsed>>

vars == <<hvars, evars, pvars>>

\* ---------------------------------------------------------------------------
\* Harvest command

NoRecord == [id |-> << >>, content |-> ""]

Event(op, dirId, n, rr, name) ==
    [op |-> op, dir |-> dirId, n |-> n, rec |-> rr, name |-> name]

\* fmt.Sprintf("%s/%02d", lc.dirPrefix, dirId)
dirName(prefix, dirId) == <<prefix, dirId>>

\* The escaping of an identifier for use as a file name: every path
\* separator is replaced.
RECURSIVE EscapeIdForFilename(_)
EscapeIdForFilename(id) ==
    IF id = << >> THEN << >>
    ELSE <<IF Head(id) = "/" THEN "%2F" ELSE Head(id)>> \o EscapeIdForFilename(Tail(id))

\* The filename, were the filter's result used whenever it returns no error.
filenameIgnoresBool(filterAst, res) ==
    IF filterAst # NilAst
    THEN LET r == Evaluate(filterAst, res)
         IN  IF r.err = NoError /\ r.val # NilValue
             THEN String(r.val)
             ELSE Identifier(res)
    ELSE Identifier(res)

\* saveRecordToDir, the filename: the filter's result when there is a
\* filter, it returns no error and its result is true; the URN otherwise.
filename(filterAst, res) ==
    IF filterAst # NilAst
    THEN LET r == Evaluate(filterAst, res)
         IN  IF r.err = NoError /\ r.val # NilValue /\ Bool(r.val)
             THEN String(r.val)
             ELSE Identifier(res)
    ELSE Identifier(res)

fileBaseName(filterAst, res) ==
    LET escaped == EscapeIdForFilename(filename(filterAst, res))
    IN  IF escaped = << >> THEN <<"__empty__">> ELSE escaped

\* filepath.Join(dir, fileBaseName + ".xml")
outFile(prefix, dirId, filterAst, res) ==
    [dir |-> dirName(prefix, dirId), name |-> fileBaseName(filterAst, res) \o <<".xml">>]

\* os.Create and file.WriteString: the file is created or truncated.
WriteFile(fs, path, content) ==
    {f \in fs : ~(f.dir = path.dir /\ f.name = path.name)}
        \cup {[dir |-> path.dir, name |-> path.name, content |-> content]}

\* closeDir, were the dry run not looked at.
closeDirInDryRun(dirId, startOk) ==
    <<Event("closeDir", dirId, 0, NoRecord, << >>)>> \o
    (IF compressDirs
     THEN <<Event(IF startOk THEN "zip" ELSE "Cannot compress", dirId, 0, NoRecord, << >>)>>
     ELSE << >>)

\* closeDir: nothing in a dry run; with -C the zip command is started and
\* not waited for, and a failure to start it is only reported.
closeDir(dirId, startOk) ==
    <<Event("closeDir", dirId, 0, NoRecord, << >>)>> \o
    (IF dryRun THEN << >>
     ELSE IF compressDirs
          THEN <<Event(IF startOk THEN "zip" ELSE "Cannot compress", dirId, 0, NoRecord, << >>)>>
          ELSE << >>)

\* The directory a record count maps to, with '/' once taken for '%'.
targetDirIdModulo(count, size) == (count % size) + 1

\* The directory a record count maps to, were every directory to take
\* exactly size records.
targetDirIdEven(count, size) == ((count - 1) \div size) + 1

\* The directory a record count maps to.
targetDirId(count, size) == (count \div size) + 1

\* The rotation, closing the directory that is about to be written.
rotateClosesNew(dirId, startOk) ==
    IF dirId # lastDirId THEN closeDir(dirId, startOk) ELSE << >>

\* saveRecord, the rotation: the directory written so far is closed when
\* the record belongs in another one.
rotate(dirId, startOk) ==
    IF dirId # lastDirId THEN closeDir(lastDirId, startOk) ELSE << >>

\* saveRecord (OnRecord): count, rotate, and unless this is a dry run save.
\* createOk and startOk are what os.Create and cmd.Start answer.
saveRecord(res, createOk, startOk) ==
    LET count == recordCount + 1
        dirId == targetDirId(count, maxDirSize)
        path  == outFile(dirPrefix, dirId, filenameFilterAst, res)
    IN  /\ recordCount' = count
        /\ lastDirId' = IF dirId # lastDirId THEN dirId ELSE lastDirId
        /\ dirs' = IF dryRun THEN dirs ELSE dirs \cup {dirName(dirPrefix, dirId)}
        /\ files' = IF dryRun \/ ~createOk THEN files
                    ELSE WriteFile(files, path, res.content)
        /\ log' = log
                \o rotate(dirId, startOk)
                \o <<Event("saveRecord", dirId, count, NoRecord, << >>)>>
                \o (IF dryRun THEN << >>
                    ELSE <<Event("MkdirAll", dirId, count, NoRecord, << >>)>>
                         \o (IF createOk
                             THEN <<Event("write", dirId, count, res, path.name)>>
                             ELSE << >>))
        /\ pc' = IF ~dryRun /\ ~createOk THEN "panic" ELSE pc

\* The filter expressions given with -N, as token sequences; none is "".
Str(s) == StringTok(<<Q>> \o s \o <<Q>>)

FilterExprs ==
    { << >>,
      <<Ident("xp")>>,
      <<Ident("xp"), Punct("("), Str(<<"/">>), Punct(")")>>,
      <<Ident("concat"), Punct("("), Punct(")")>>,
      <<Ident("replace"), Punct("("), Ident("urn"), Punct(","), Str(<<"/">>),
        Punct(","), Str(<<"a">>), Punct(")")>>,
      <<Ident("foo"), Punct("("), Punct(")")>> }

\* Run, up to the call of harvest: compile the filter, log.Fatal on an error.
Run_Begin ==
    /\ pc = "start"
    /\ LET p == ParseRSExpr(filenameFilter)
       IN  IF filenameFilter # << >> /\ p.err # PNoError
           THEN /\ pc' = "fatal"
                /\ UNCHANGED <<filenameFilterAst, lastDirId, dirPrefix>>
           ELSE /\ filenameFilterAst' =
                       IF filenameFilter # << >> THEN p.ast ELSE filenameFilterAst
                /\ lastDirId' = 1
                /\ dirPrefix' = "20060102T150405"
                /\ pc' = "harvest"
    /\ UNCHANGED <<dryRun, compressDirs, maxDirSize, filenameFilter, recordCount,
                   dirs, files, log>>
    /\ UNCHANGED <<evars, pvars>>

\* The harvester delivers a record that passed the guards.
OnRecord ==
    /\ pc = "harvest"
    /\ recordCount < MaxRecords
    /\ \E rr \in Records, createOk \in BOOLEAN, startOk \in BOOLEAN :
           saveRecord(rr, createOk, startOk)
    /\ UNCHANGED <<dryRun, compressDirs, maxDirSize, filenameFilter,
                   filenameFilterAst, dirPrefix>>
    /\ UNCHANGED <<evars, pvars>>

\* harvester.Harvest returns to Run.
Harvest_Return ==
    /\ pc = "harvest"
    /\ pc' = "returned"
    /\ UNCHANGED <<dryRun, compressDirs, maxDirSize, filenameFilter, filenameFilterAst,
                   dirPrefix, recordCount, lastDirId, dirs, files, log>>
    /\ UNCHANGED <<evars, pvars>>

\* Run, after harvest, were the last directory left open.
Run_EndLeavesOpen ==
    /\ pc = "returned"
    /\ pc' = "done"
    /\ UNCHANGED <<dryRun, compressDirs, maxDirSize, filenameFilter, filenameFilterAst,
                   dirPrefix, recordCount, lastDirId, dirs, files, log>>
    /\ UNCHANGED <<evars, pvars>>

\* Run, after harvest: lc.closeDir(lc.lastDirId).
Run_End ==
    /\ pc = "returned"
    /\ \E startOk \in BOOLEAN :
           log' = log \o closeDir(lastDirId, startOk)
    /\ pc' = "done"
    /\ UNCHANGED <<dryRun, compressDirs, maxDirSize, filenameFilter, filenameFilterAst,
                   dirPrefix, recordCount, lastDirId, dirs, files>>
    /\ UNCHANGED <<evars, pvars>>

NoEvals == << >>

NoParse == [state |-> "none", ast |-> NilAst, err |-> PNoError]

Init ==
    /\ pc = "start"
    /\ dryRun \in BOOLEAN
    /\ compressDirs \in BOOLEAN
    /\ maxDirSize \in 1..MaxDirSizeBound
    /\ filenameFilter \in FilterExprs
    /\ filenameFilterAst = NilAst
    /\ dirPrefix = ""
    /\ recordCount = 0
    /\ lastDirId = 0
    /\ dirs = {}
    /\ files = {}
    /\ log = << >>
    /\ ast = NilAst
    /\ evals = NoEvals
    /\ expr = << >>
    /\ parsed = NoParse

Next == Run_Begin \/ OnRecord \/ Harvest_Return \/ Run_End

Spec == Init /\ [][Next]_vars

\* ---------------------------------------------------------------------------
\* Evaluation of one AST by several callers, step by step

\* Largest number of arguments of a function call of an evaluated AST.
MaxArgs == 3

\* The callers of Evaluate (download workers, the harvest command).
Procs == {"w1", "w2"}

RECURSIVE NodeAt(_, _)
NodeAt(node, path) ==
    IF path = << >> THEN node ELSE NodeAt(node.FnArgs[Head(path)], Tail(path))

SeqsUpTo(S, n) == UNION {[1..k -> S] : k \in 0..n}

Leaves ==
    { RSExprLiteral(RSString(<<"/">>)),
      RSExprFnCall("urn", << >>),
      RSExprFnCall("xp", << >>) }

Calls(args) == {RSExprFnCall(f, a) : f \in NativeNames, a \in args}

\* The ASTs that are evaluated: literals, calls on up to MaxArgs leaves, and
\* calls with a call among their arguments.
Exprs ==
    LET inner == Calls(SeqsUpTo(Leaves, 1))
    IN  Leaves
        \cup Calls(SeqsUpTo(Leaves, MaxArgs))
        \cup {RSExprFnCall(f, <<i, l>>) :
                  f \in {"concat", "startsWith"}, i \in inner, l \in Leaves}
        \cup {RSExprFnCall(f, <<l, i>>) :
                  f \in {"concat", "replace"}, i \in inner, l \in Leaves}

TraceEvent(ev, path, fn, args, r) ==
    [ev |-> ev, path |-> path, fn |-> fn, args |-> args, val |-> r.val, err |-> r.err]

Entered(path) == TraceEvent("enter", path, "", << >>, Ok(NilValue))

Returned(path, r) == TraceEvent("return", path, "", << >>, r)

Invoked(path, fn, args, r) == TraceEvent("invoke", path, fn, args, r)

Fresh(rr) ==
    [rr |-> rr, status |-> "idle", stack |-> << >>, ret |-> Ok(NilValue), trace |-> << >>]

Top(e) == e.stack[Len(e.stack)]

Pop(stack) == SubSeq(stack, 1, Len(stack) - 1)

Finished(e) == e.status = "return" /\ e.stack = << >>

\* A call of Evaluate on the node at path: a literal returns its value, a
\* function call allocates argValues and starts its loop.
Call(e, root, path) ==
    LET node == NodeAt(root, path)
    IN  IF node.type = "RSExprLiteral"
        THEN [e EXCEPT !.status = "return",
                       !.ret = Ok(node.val),
                       !.trace = @ \o <<Entered(path), Returned(path, Ok(node.val))>>]
        ELSE [e EXCEPT !.status = "loop",
                       !.stack = Append(@, [path |-> path, i |-> 1, argValues |-> << >>]),
                       !.trace = Append(@, Entered(path))]

\* The loop of RSExprFnCall.Evaluate, were the error of an argument dropped.
BackIgnoringError(e) ==
    LET top == Top(e)
    IN  [e EXCEPT !.status = "loop",
                  !.stack = Append(Pop(e.stack),
                                   [top EXCEPT !.i = @ + 1,
                                               !.argValues = Append(@, e.ret.val)])]

\* Back in the loop of RSExprFnCall.Evaluate with what the argument's
\* Evaluate returned: an error is returned at once, a value is stored.
Back(e) ==
    LET top == Top(e)
    IN  IF e.ret.err # NoError
        THEN [e EXCEPT !.stack = Pop(e.stack),
                       !.ret = Fail(e.ret.err),
                       !.trace = Append(@, Returned(top.path, Fail(e.ret.err)))]
        ELSE [e EXCEPT !.status = "loop",
                       !.stack = Append(Pop(e.stack),
                                        [top EXCEPT !.i = @ + 1,
                                                    !.argValues = Append(@, e.ret.val)])]

\* The end of RSExprFnCall.Evaluate: return fnCall.Fn(rr, argValues).
Invoke(e, root) ==
    LET top  == Top(e)
        node == NodeAt(root, top.path)
        r    == NATIVE_FUNCTIONS(node.Fn, e.rr, top.argValues)
    IN  [e EXCEPT !.status = "return",
                  !.stack = Pop(e.stack),
                  !.ret = r,
                  !.trace = @ \o <<Invoked(top.path, node.Fn, top.argValues, r),
                                   Returned(top.path, r)>>]

RECURSIVE PutAt(_, _, _)
PutAt(node, path, new) ==
    IF path = << >> THEN new
    ELSE [node EXCEPT !.FnArgs[Head(path)] = PutAt(@, Tail(path), new)]

\* A caller evaluates the AST against its record.
Evaluate_Start(p) ==
    /\ evals[p].status = "idle"
    /\ evals' = [evals EXCEPT ![p] = Call(@, ast, << >>)]
    /\ UNCHANGED <<ast, hvars, pvars>>

\* fnCall.FnArgs[i].Evaluate(rr)
Evaluate_Arg(p) ==
    /\ evals[p].status = "loop"
    /\ Top(evals[p]).i <= Len(NodeAt(ast, Top(evals[p]).path).FnArgs)
    /\ evals' = [evals EXCEPT ![p] = Call(@, ast, Top(@).path \o <<Top(@).i>>)]
    /\ UNCHANGED <<ast, hvars, pvars>>

Evaluate_Back(p) ==
    /\ evals[p].status = "return"
    /\ evals[p].stack # << >>
    /\ evals' = [evals EXCEPT ![p] = Back(@)]
    /\ UNCHANGED <<ast, hvars, pvars>>

\* The invocation, were its result kept in the node in place of the call.
Evaluate_InvokeAndKeep(p) ==
    /\ evals[p].status = "loop"
    /\ Top(evals[p]).i > Len(NodeAt(ast, Top(evals[p]).path).FnArgs)
    /\ evals' = [evals EXCEPT ![p] = Invoke(@, ast)]
    /\ ast' = LET r == Invoke(evals[p], ast).ret
              IN  IF r.err = NoError
                  THEN PutAt(ast, Top(evals[p]).path, RSExprLiteral(r.val))
                  ELSE ast
    /\ UNCHANGED <<hvars, pvars>>

Evaluate_Invoke(p) ==
    /\ evals[p].status = "loop"
    /\ Top(evals[p]).i > Len(NodeAt(ast, Top(evals[p]).path).FnArgs)
    /\ evals' = [evals EXCEPT ![p] = Invoke(@, ast)]
    /\ UNCHANGED <<ast, hvars, pvars>>

HarvestIdle ==
    /\ pc = "start"
    /\ dryRun = FALSE
    /\ compressDirs = FALSE
    /\ maxDirSize = 1
    /\ filenameFilter = << >>
    /\ filenameFilterAst = NilAst
    /\ dirPrefix = ""
    /\ recordCount = 0
    /\ lastDirId = 0
    /\ dirs = {}
    /\ files = {}
    /\ log = << >>

InitEval ==
    /\ HarvestIdle
    /\ ast \in Exprs
    /\ evals \in {[p \in Procs |-> Fresh(IF p = "w1" THEN r1 ELSE r2)] :
                     r1 \in Records, r2 \in Records}
    /\ evals["w1"].rr # evals["w2"].rr
    /\ expr = << >>
    /\ parsed = NoParse

NextEval ==
    \E p \in Procs :
        Evaluate_Start(p) \/ Evaluate_Arg(p) \/ Evaluate_Back(p) \/ Evaluate_Invoke(p)

SpecEval == InitEval /\ [][NextEval]_vars

\* ---------------------------------------------------------------------------
\* What the harvest command did: the events of the log

At(op) == {i \in DOMAIN log : log[i].op = op}

Started == pc \notin {"start", "fatal"}

\* The file name a record gets from its own identifier.
IdentifierName(rr) ==
    LET escaped == EscapeIdForFilename(Identifier(rr))
    IN  (IF escaped = << >> THEN <<"__empty__">> ELSE escaped) \o <<".xml">>

\* The file name a filter result gets.
ResultName(v) ==
    LET escaped == EscapeIdForFilename(String(v))
    IN  (IF escaped = << >> THEN <<"__empty__">> ELSE escaped) \o <<".xml">>

\* C1 as stated: with maxDirSize = 2 the 1st and 2nd records are written to
\* directory 1 and the 3rd and 4th to directory 2.
C1_AsStated ==
    maxDirSize = 2 =>
        \A i \in DOMAIN log : log[i].op = "write" =>
            /\ log[i].n \in {1, 2} => log[i].dir = 1
            /\ log[i].n \in {3, 4} => log[i].dir = 2

\* C1, amended: with maxDirSize = 2 the 1st record is written to directory 1,
\* the 2nd and 3rd to directory 2 and the 4th to directory 3.
C1_Rotation ==
    maxDirSize = 2 =>
        \A i \in DOMAIN log : log[i].op = "write" =>
            /\ log[i].n = 1 => log[i].dir = 1
            /\ log[i].n \in {2, 3} => log[i].dir = 2
            /\ log[i].n = 4 => log[i].dir = 3

C1_Witness ==
    /\ maxDirSize = 2
    /\ \E i \in At("write") : log[i].n = 4

\* C2: the n-th saveRecord of a run sets recordCount to n, targets directory
\* (n div maxDirSize) + 1, calls closeDir on the old lastDirId first exactly
\* when the target differs from it, and leaves lastDirId at the target.
C2_SaveRecord ==
    [][recordCount' # recordCount =>
        LET n      == Cardinality({i \in DOMAIN log' : log'[i].op = "saveRecord"})
            new    == SubSeq(log', Len(log) + 1, Len(log'))
            target == (n \div maxDirSize) + 1
            closes == {i \in DOMAIN new : new[i].op = "closeDir"}
        IN  /\ recordCount' = n
            /\ recordCount' = recordCount + 1
            /\ \E i \in DOMAIN new :
                   /\ new[i].op = "saveRecord" /\ new[i].dir = target /\ new[i].n = n
                   /\ \A j \in closes : j < i
            /\ IF target # lastDirId
               THEN closes = {1} /\ new[1].dir = lastDirId
               ELSE closes = {}
            /\ lastDirId' = target]_vars

C2_Witness ==
    /\ pc = "harvest"
    /\ maxDirSize = 3
    /\ recordCount = 4
    /\ lastDirId = 2
    /\ \E i \in At("closeDir") : log[i].dir = 1

\* C3: the directory written to never decreases over the records of a run, a
\* directory that stopped being the target is never targeted again, and the
\* one current target is lastDirId.
C3_TargetsIncrease ==
    LET S == At("saveRecord")
        W == At("write")
    IN  /\ \A i, j \in S : i < j => log[i].dir <= log[j].dir
        /\ \A i \in S, j \in W : i < j => log[i].dir <= log[j].dir
        /\ \A i \in S :
               /\ log[i].dir <= lastDirId
               /\ (\A j \in S : j <= i) => log[i].dir = lastDirId
        /\ \A i \in W : \E j \in S :
               j < i /\ log[j].n = log[i].n /\ log[j].dir = log[i].dir

C3_Witness ==
    /\ maxDirSize = 2
    /\ lastDirId = 3
    /\ \E i, j \in At("write") : log[i].dir = 1 /\ log[j].dir = 2

\* C4: a dry run counts every record and moves lastDirId as a normal run
\* does, and writes no file, creates no directory and starts no compression.
C4_DryRun ==
    dryRun =>
        LET S == At("saveRecord")
        IN  /\ recordCount = Cardinality(S)
            /\ \A i \in S : log[i].n = Cardinality({j \in S : j <= i})
            /\ Started => lastDirId = (recordCount \div maxDirSize) + 1
            /\ files = {}
            /\ dirs = {}
            /\ \A i \in DOMAIN log : log[i].op \in {"saveRecord", "closeDir"}
            /\ pc # "panic"

C4_Witness ==
    /\ dryRun /\ compressDirs
    /\ pc = "done"
    /\ recordCount = MaxRecords
    /\ \E i, j \in At("closeDir") : i # j

\* C5: with a filter, a record's file is named after the filter's result
\* only when the evaluation returns no error and a true result; after an
\* error or a false result the record is written all the same, named after
\* its own identifier, with its own content, and the run goes on.  An empty
\* escaped name is '__empty__'.
C5_FilterFallback ==
    (~dryRun /\ filenameFilterAst # NilAst) =>
        LET W == At("write")
        IN  /\ \A i \in W :
                   LET r == Evaluate(filenameFilterAst, log[i].rec)
                   IN  /\ log[i].name =
                              IF r.err = NoError /\ Bool(r.val)
                              THEN ResultName(r.val)
                              ELSE IdentifierName(log[i].rec)
                       /\ log[i].name # <<".xml">>
                       /\ \E f \in files :
                              /\ f.dir = dirName(dirPrefix, log[i].dir)
                              /\ f.name = log[i].name
            /\ \A f \in files :
                   LET F == {i \in W : /\ f.dir = dirName(dirPrefix, log[i].dir)
                                       /\ f.name = log[i].name}
                   IN  \E i \in F : /\ \A j \in F : j <= i
                                    /\ f.content = log[i].rec.content
            /\ pc # "panic" => Cardinality(W) = recordCount

C5_Witness ==
    /\ ~dryRun /\ filenameFilterAst # NilAst
    /\ pc = "done"
    /\ \E i, j, k \in At("write") :
           /\ i < j /\ j < k
           /\ Evaluate(filenameFilterAst, log[i].rec).err # NoError
           /\ Evaluate(filenameFilterAst, log[j].rec).err = NoError
           /\ ~Bool(Evaluate(filenameFilterAst, log[j].rec).val)
           /\ Bool(Evaluate(filenameFilterAst, log[k].rec).val)

\* C10 as stated: in a run that is not a dry run closeDir is invoked exactly
\* once for each directory that received a write and for no other directory,
\* each time after the last write to it, the last time in Run after the
\* harvester returned.
C10_AsStated ==
    ~dryRun =>
        LET C == At("closeDir")
            W == At("write")
        IN  /\ \A i, j \in C : log[i].dir = log[j].dir => i = j
            /\ \A i \in C :
                   /\ \E j \in W : log[j].dir = log[i].dir
                   /\ \A j \in W : log[j].dir = log[i].dir => j < i
            /\ pc = "done" => \A j \in W : \E i \in C : log[i].dir = log[j].dir

\* C10, amended: closeDir is invoked at most once for a directory, always
\* after the last write to it; when Run ends it has been invoked exactly once
\* for each directory that received a write and once for directory 1, written
\* or not, and for no other; the last invocation is that of Run, after the
\* harvester returned, for lastDirId.
C10_CloseOnce ==
    ~dryRun =>
        LET C == At("closeDir")
            W == At("write")
        IN  /\ \A i, j \in C : log[i].dir = log[j].dir => i = j
            /\ \A i \in C :
                   /\ log[i].dir = 1 \/ \E j \in W : log[j].dir = log[i].dir
                   /\ \A j \in W : log[j].dir = log[i].dir => j < i
            /\ pc \in {"harvest", "returned"} => \A i \in C : log[i].dir < lastDirId
            /\ pc = "done" =>
                   /\ \A j \in W : \E i \in C : log[i].dir = log[j].dir
                   /\ \E i \in C : log[i].dir = 1
                   /\ \E i \in C : /\ log[i].dir = lastDirId
                                   /\ \A j \in C \cup W : j <= i

C10_Witness ==
    /\ ~dryRun
    /\ pc = "done"
    /\ maxDirSize = 1
    /\ recordCount = 3
    /\ \A j \in At("write") : log[j].dir # 1

\* ---------------------------------------------------------------------------
\* What the evaluations did: the events of their traces

\* The number of arguments the documentation of a native function gives.
Arity(fn) ==
    CASE fn = "xp"         -> 1
      [] fn = "startsWith" -> 2
      [] fn = "contains"   -> 2
      [] fn = "urn"        -> 0
      [] fn = "replace"    -> 3

Parent(path) == SubSeq(path, 1, Len(path) - 1)

Last(path) == path[Len(path)]

\* C6: a native function of fixed arity invoked with another number of
\* arguments returns an error and no value, and the error names the function
\* that was called; concat returns no arity error whatever the number.
C6_ArityChecked ==
    \A p \in Procs :
        LET t == evals[p].trace
        IN  \A j \in DOMAIN t :
                t[j].ev = "invoke" =>
                    IF t[j].fn = "concat"
                    THEN t[j].err = NoError
                    ELSE Len(t[j].args) # Arity(t[j].fn) =>
                             /\ t[j].err # NoError
                             /\ t[j].val = NilValue
                             /\ t[j].err.fn = t[j].fn

\* C7: the arguments of a function call are evaluated in index order, each
\* once; the first error among them ends the evaluation of the call with
\* that error, no later argument being evaluated and the function not being
\* invoked; the function is invoked once, on the values of all arguments in
\* order, only when every argument returned without error.
C7_LeftToRight ==
    \A p \in Procs :
        LET t == evals[p].trace
        IN  \A j \in DOMAIN t :
                /\ (t[j].ev = "enter" /\ t[j].path # << >>) =>
                       /\ j > 1
                       /\ IF Last(t[j].path) = 1
                          THEN t[j - 1].ev = "enter" /\ t[j - 1].path = Parent(t[j].path)
                          ELSE /\ t[j - 1].ev = "return"
                               /\ t[j - 1].path = Parent(t[j].path) \o <<Last(t[j].path) - 1>>
                               /\ t[j - 1].err = NoError
                /\ t[j].ev = "enter" =>
                       \A k \in DOMAIN t : (t[k].ev = "enter" /\ t[k].path = t[j].path) => k = j
                /\ (t[j].ev = "return" /\ t[j].err # NoError /\ t[j].path # << >> /\ j < Len(t)) =>
                       /\ t[j + 1].ev = "return"
                       /\ t[j + 1].path = Parent(t[j].path)
                       /\ t[j + 1].err = t[j].err
                       /\ t[j + 1].val = NilValue
                /\ t[j].ev = "invoke" =>
                       LET node == NodeAt(ast, t[j].path)
                       IN  /\ t[j].fn = node.Fn
                           /\ Len(t[j].args) = Len(node.FnArgs)
                           /\ \A i \in DOMAIN node.FnArgs : \E k \in 1..(j - 1) :
                                  /\ t[k].ev = "return"
                                  /\ t[k].path = t[j].path \o <<i>>
                                  /\ t[k].err = NoError
                                  /\ t[k].val = t[j].args[i]
                           /\ \A k \in DOMAIN t :
                                  (t[k].ev = "invoke" /\ t[k].path = t[j].path) => k = j
                /\ (t[j].ev = "return" /\ NodeAt(ast, t[j].path).type = "RSExprFnCall") =>
                       \/ /\ t[j - 1].ev = "invoke"
                          /\ t[j - 1].path = t[j].path
                          /\ t[j - 1].val = t[j].val /\ t[j - 1].err = t[j].err
                       \/ /\ t[j - 1].ev = "return"
                          /\ t[j - 1].path # << >>
                          /\ Parent(t[j - 1].path) = t[j].path
                          /\ t[j - 1].err # NoError
                          /\ t[j - 1].err = t[j].err

\* An evaluation ended by the error of the first of two arguments, beside
\* one of the same AST in which both arguments returned values.
C7_Witness ==
    \E p, q \in Procs :
        /\ Finished(evals[p]) /\ Finished(evals[q])
        /\ Len(ast.FnArgs) = 2
        /\ evals[p].ret.err = OtherError("xmlpath.Parse")
        /\ \E j \in DOMAIN evals[p].trace :
               /\ evals[p].trace[j].ev = "return"
               /\ evals[p].trace[j].path = <<1>>
               /\ evals[p].trace[j].err # NoError
        /\ evals[q].ret.err = NoError
        /\ \E j \in DOMAIN evals[q].trace :
               /\ evals[q].trace[j].ev = "invoke"
               /\ evals[q].trace[j].path = << >>
               /\ Len(evals[q].trace[j].args) = 2

\* C9: Evaluate never modifies the AST, and each of the evaluations that
\* run interleaved on it returns what it returns when it runs alone.
C9_SharedAst ==
    /\ [][ast' = ast]_vars
    /\ [](\A p \in Procs : Finished(evals[p]) => evals[p].ret = Evaluate(ast, evals[p].rr))

\* Two evaluations of one AST, both under way, that end differently.
C9_Witness ==
    /\ \A p \in Procs : evals[p].status = "loop" /\ Top(evals[p]).argValues # << >>
    /\ Evaluate(ast, evals["w1"].rr) # Evaluate(ast, evals["w2"].rr)
    /\ ast.Fn = "replace" /\ Len(ast.FnArgs) = 3

\* ---------------------------------------------------------------------------
\* Parsing

Tokens ==
    { Ident("urn"), Ident("concat"), Ident("foo"),
      Str(<<"a">>), StringTok(<<Q, "a">>),
      Punct("("), Punct(")"), Punct(",") }

\* A caller parses an expression: ParseRSExpr(expr).
Parse ==
    /\ parsed.state = "none"
    /\ parsed' = [state |-> "returned",
                  ast   |-> ParseRSExpr(expr).ast,
                  err   |-> ParseRSExpr(expr).err]
    /\ UNCHANGED <<expr, hvars, evars>>

InitParse ==
    /\ HarvestIdle
    /\ ast = NilAst
    /\ evals = NoEvals
    /\ expr \in SeqsUpTo(Tokens, MaxTokens)
    /\ parsed = NoParse

NextParse == Parse

SpecParse == InitParse /\ [][NextParse]_vars

\* The grammar
\*     expr = fncall | atom
\*     fncall = IDENT [ '(' (expr (',' expr)*)? ')' ]
\*     atom = STRING
\* with every IDENT a native function.  ExprEnds(toks, i) is the set of the
\* positions j such that the tokens from i up to j - 1 are an expr.
RECURSIVE ExprEnds(_, _)
RECURSIVE ListEnds(_, _)
ListEnds(toks, i) ==
    UNION { (IF TokAt(toks, j).tok = ")" THEN {j + 1} ELSE {})
                \cup (IF TokAt(toks, j).tok = "," THEN ListEnds(toks, j + 1) ELSE {}) :
            j \in ExprEnds(toks, i) }

ExprEnds(toks, i) ==
    LET t == TokAt(toks, i)
    IN  CASE t.tok \in {"String", "RawString"} /\ Unquotes(t.text) -> {i + 1}
          [] t.tok = "Ident" /\ t.name \in NativeNames ->
                 {i + 1} \cup
                 (IF TokAt(toks, i + 1).tok = "("
                  THEN (IF TokAt(toks, i + 2).tok = ")" THEN {i + 3} ELSE {})
                           \cup ListEnds(toks, i + 2)
                  ELSE {})
          [] OTHER -> {}

Derivable(toks) == (Len(toks) + 1) \in ExprEnds(toks, 1)

\* C8: ParseRSExpr returns an AST exactly when the whole token sequence is
\* derivable from the grammar, and an error and no AST for every other one.
C8_WholeInput ==
    parsed.state = "returned" =>
        /\ (parsed.err = PNoError /\ parsed.ast # NilAst) <=> Derivable(expr)
        /\ parsed.err # PNoError => parsed.ast = NilAst

====
